---- MODULE Spec2Model ----
(***************************************************************************)
(* State-machine model of app.py: a Flask application backed by three      *)
(* SQLAlchemy tables (User, Checkin, LineReply) with a LINE webhook        *)
(* (/callback -> handle_message) and the direct REST endpoints             *)
(* /api/register, /api/checkin and /api/line_reply.                        *)
(*                                                                         *)
(* Requests are served by concurrent workers.  A handler is split into     *)
(* steps only where it reads the User table and later commits an insert    *)
(* that depends on that read (the fetch-or-create of handle_message and    *)
(* register_user); everything else a handler does is one step.             *)
(*                                                                         *)
(* The source uses CJK command tokens and reply texts.  They are written   *)
(* here in ASCII: the characters of the commands are "da","ka" (check-in,  *)
(* app.py line 305) and "cha","xun" (query, app.py line 297).              *)
(***************************************************************************)
EXTENDS Integers, Sequences, FiniteSets

VARIABLES users, checkins, linereplies, replyCalls, req, last, now, nreq,
          workers, limit

vars == <<users, checkins, linereplies, replyCalls, req, last, now, nreq,
          workers, limit>>

env == <<workers, limit>>

(* ------------------------------ bounds -------------------------------- *)
MaxRequests == 2
MaxSeqRequests == 3
MaxTime == 2

Workers == {"w1", "w2"}
LineIds == {"U1", "U2"}
RegisterNames == {"Ann"}
ReplyBodies == {"hello"}

(* Message texts delivered by the platform, as sequences of characters.   *)
Texts ==
  { <<"da", "ka">>, <<" ", "da", "ka", " ">>, <<"cha", "xun">>,
    <<"da", " ", "ka">> }

(* ----------------------------- constants ------------------------------ *)
HEADER_SIGNATURE == "X-Line-Signature"
PLACEHOLDER_NAME == "LINE User"
CMD_QUERY == <<"cha", "xun">>
CMD_CHECKIN == <<"da", "ka">>
REPLY_RECORDS == "records:"
REPLY_NO_RECORDS == "no records yet"
REPLY_CHECKIN_OK == "checked in"
REPLY_HELP == "enter check-in or query"
TicksPerSecond == 2

(* ------------------------- pure helper functions ---------------------- *)
IsSpace(c) == c \in {" ", "\t", "\n"}

LowerChar(c) == IF c = "H" THEN "h" ELSE IF c = "I" THEN "i" ELSE c

Lower(t) == [i \in 1..Len(t) |-> LowerChar(t[i])]

RECURSIVE LStrip(_)
LStrip(t) == IF t # <<>> /\ IsSpace(Head(t)) THEN LStrip(Tail(t)) ELSE t

RECURSIVE RStrip(_)
RStrip(t) ==
  IF t # <<>> /\ IsSpace(t[Len(t)]) THEN RStrip(SubSeq(t, 1, Len(t) - 1)) ELSE t

RECURSIVE StripAllSpaces(_)
StripAllSpaces(t) ==
  IF t = <<>> THEN <<>>
  ELSE IF IsSpace(Head(t)) THEN StripAllSpaces(Tail(t))
  ELSE <<Head(t)>> \o StripAllSpaces(Tail(t))

Strip(t) == RStrip(LStrip(t))

NormalizeNoStrip(t) == Lower(t)

Normalize(t) == Lower(Strip(t))

(* strftime("%Y-%m-%d %H:%M:%S"): sub-second part of the time is dropped. *)
Strftime(t) == t \div TicksPerSecond

(* request.headers[key]: subscripting raises KeyError for an absent key.  *)
HeaderLookup(headers, key) == IF key \in headers THEN "present" ELSE "KeyError"

(* get_profile(line_user_id).display_name of the messaging platform.      *)
ProfileDisplayName(lid) == IF lid = "U1" THEN "Uno" ELSE "Dos"

(* ------------------------------ tables -------------------------------- *)
Range(s) == {s[i] : i \in 1..Len(s)}

UsersByName(lid) == {u \in Range(users) : u.name = lid}

UsersByLineId(lid) == {u \in Range(users) : u.line_user_id = lid}

UsersById(uid) == {u \in Range(users) : u.user_id = uid}

NoUniqueConstraint(lid) == FALSE

(* unique=True on User.line_user_id: an insert of a present id is refused. *)
UniqueViolation(lid) == \E i \in 1..Len(users) : users[i].line_user_id = lid

FirstUser(lid) == CHOOSE u \in UsersByLineId(lid) : TRUE

NewUser(lid, name) ==
  [user_id |-> Len(users) + 1, line_user_id |-> lid, name |-> name]

NewCheckinOtherOwner(uid, t) ==
  [checkin_id |-> Len(checkins) + 1, user_id |-> uid + 1, checkin_time |-> t]

(* checkin_time defaults to datetime.utcnow() at the insert.              *)
NewCheckin(uid, t) ==
  [checkin_id |-> Len(checkins) + 1, user_id |-> uid, checkin_time |-> t]

(* The readings the clock can give now: not before the latest reading.    *)
ClockReadings == now..MaxTime

NewLineReply(uid, msg) ==
  [reply_id |-> Len(linereplies) + 1, user_id |-> uid, reply_message |-> msg]

IsUserRow(c, uid) == c.user_id = uid

Orderings(n) ==
  {p \in [1..n -> 1..n] : \A i, j \in 1..n : i # j => p[i] # p[j]}

(* Checkin.query.filter_by(user_id=uid).all(): no ORDER BY, so the rows   *)
(* come back in an order the database chooses.                            *)
CheckinsOf(uid) ==
  LET rows == SelectSeq(checkins, LAMBDA c : IsUserRow(c, uid))
  IN  {[i \in 1..Len(rows) |-> rows[p[i]]] : p \in Orderings(Len(rows))}

(* ------------------------------ requests ------------------------------ *)
(* req[w] is the request worker w is serving: the handler's position and  *)
(* local variables.  last is the most recently answered request: what it  *)
(* was, the HTTP status it got and the exception that ended it, if any.   *)
IdleReq ==
  [op |-> "none", pc |-> "idle", line_user_id |-> "", name |-> "",
   text |-> <<>>, token |-> 0, user_id |-> 0, existed |-> FALSE]

NoResponse ==
  [op |-> "none", headers |-> {}, line_user_id |-> "", name |-> "",
   existed |-> FALSE, status |-> 0, error |-> ""]

Response(r, headers, code, error) ==
  [op |-> r.op, headers |-> headers, line_user_id |-> r.line_user_id,
   name |-> r.name, existed |-> r.existed, status |-> code, error |-> error]

Free(w) == req[w].pc = "idle" /\ nreq < limit

(* The tables are empty after db.create_all().  workers are the threads   *)
(* serving requests and limit is the number of requests that arrive.      *)
Tables ==
  /\ users = <<>>
  /\ checkins = <<>>
  /\ linereplies = <<>>
  /\ replyCalls = <<>>
  /\ req = [w \in Workers |-> IdleReq]
  /\ last = NoResponse
  /\ now = 0
  /\ nreq = 0

Init == Tables /\ workers = Workers /\ limit = MaxRequests

InitSeq == Tables /\ workers = {"w1"} /\ limit = MaxSeqRequests

(* --------------------------- POST /callback --------------------------- *)
(* callback up to and including the User lookup of handle_message.        *)
CallbackStep(w, headers, lid, text) ==
  LET r == [IdleReq EXCEPT !.op = "callback",
                           !.line_user_id = lid, !.text = text,
                           !.token = nreq + 1]
      sig == HeaderLookup(headers, HEADER_SIGNATURE)
  IN  /\ Free(w)
      /\ nreq' = nreq + 1
      /\ IF sig = "KeyError"
         THEN last' = Response(r, headers, 500, "KeyError") /\ UNCHANGED req
         ELSE IF sig = "None"
         THEN last' = Response(r, headers, 400, "") /\ UNCHANGED req
         ELSE /\ req' = [req EXCEPT ![w] =
                           IF UsersByLineId(lid) # {}
                           THEN [r EXCEPT !.pc = "dispatch", !.existed = TRUE,
                                          !.user_id = FirstUser(lid).user_id]
                           ELSE [r EXCEPT !.pc = "create"]]
              /\ UNCHANGED last
      /\ UNCHANGED <<users, checkins, linereplies, replyCalls, now, env>>

Callback(w) ==
  \E headers \in SUBSET {HEADER_SIGNATURE}, lid \in LineIds, text \in Texts :
     CallbackStep(w, headers, lid, text)

DisplayNameOfError(lid, profileOk) ==
  IF profileOk THEN ProfileDisplayName(lid) ELSE "LookupError"

(* display_name of handle_message: the profile's name, or the constant.   *)
DisplayName(lid, profileOk) ==
  IF profileOk THEN ProfileDisplayName(lid) ELSE PLACEHOLDER_NAME

(* handle_message, user absent at lookup: get_profile, add, commit.       *)
(* The unique constraint on line_user_id makes the commit raise when the  *)
(* id was inserted meanwhile; nothing catches it.                         *)
HmCreateStep(w, profileOk) ==
  LET r == req[w]
      u == NewUser(r.line_user_id, DisplayName(r.line_user_id, profileOk))
  IN  /\ r.op = "callback" /\ r.pc = "create"
      /\ IF UniqueViolation(r.line_user_id)
         THEN /\ req' = [req EXCEPT ![w] = IdleReq]
              /\ last' = Response(r, {HEADER_SIGNATURE}, 500, "IntegrityError")
              /\ UNCHANGED users
         ELSE /\ users' = Append(users, u)
              /\ req' = [req EXCEPT ![w] = [r EXCEPT !.pc = "dispatch",
                                                     !.user_id = u.user_id]]
              /\ UNCHANGED last
      /\ UNCHANGED <<checkins, linereplies, replyCalls, now, nreq, env>>

HmCreate(w) == \E profileOk \in BOOLEAN : HmCreateStep(w, profileOk)

QueryReply(rows) ==
  IF rows # <<>>
  THEN [head |-> REPLY_RECORDS,
        lines |-> [i \in 1..Len(rows) |-> Strftime(rows[i].checkin_time)]]
  ELSE [head |-> REPLY_NO_RECORDS, lines |-> <<>>]

PlainReply(head) == [head |-> head, lines |-> <<>>]

(* handle_message from the command dispatch to the return of callback.    *)
(* reply_message either succeeds or raises; nothing catches it.           *)
HmDispatchStep(w, rows, sent, t) ==
  LET r == req[w]
      text == Normalize(r.text)
      reply_text == IF text = CMD_QUERY THEN QueryReply(rows)
                    ELSE IF text = CMD_CHECKIN THEN PlainReply(REPLY_CHECKIN_OK)
                    ELSE PlainReply(REPLY_HELP)
  IN  /\ r.op = "callback" /\ r.pc = "dispatch"
      /\ IF text # CMD_QUERY /\ text = CMD_CHECKIN
         THEN checkins' = Append(checkins, NewCheckin(r.user_id, t)) /\ now' = t
         ELSE UNCHANGED <<checkins, now>>
      /\ replyCalls' = Append(replyCalls,
                              [reply_token |-> r.token, text |-> reply_text])
      /\ req' = [req EXCEPT ![w] = IdleReq]
      /\ last' = IF sent THEN Response(r, {HEADER_SIGNATURE}, 200, "")
                 ELSE Response(r, {HEADER_SIGNATURE}, 500, "LineBotApiError")
      /\ UNCHANGED <<users, linereplies, nreq, env>>

HmDispatch(w) ==
  \E sent \in BOOLEAN, rows \in CheckinsOf(req[w].user_id), t \in ClockReadings :
     HmDispatchStep(w, rows, sent, t)

(* ------------------------- POST /api/register ------------------------- *)
(* register_user up to and including the existing-user lookup.            *)
RegisterStep(w, lid, name) ==
  LET r == [IdleReq EXCEPT !.op = "register", !.line_user_id = lid,
                           !.name = name]
  IN  /\ Free(w)
      /\ nreq' = nreq + 1
      /\ IF lid = "" \/ name = ""
         THEN last' = Response(r, {}, 400, "") /\ UNCHANGED req
         ELSE IF UsersByLineId(lid) # {}
         THEN last' = Response([r EXCEPT !.existed = TRUE], {}, 200, "")
              /\ UNCHANGED req
         ELSE req' = [req EXCEPT ![w] = [r EXCEPT !.pc = "insert"]]
              /\ UNCHANGED last
      /\ UNCHANGED <<users, checkins, linereplies, replyCalls, now, env>>

Register(w) ==
  \E lid \in LineIds \cup {""}, name \in RegisterNames \cup {""} :
     RegisterStep(w, lid, name)

(* register_user: add and commit of the new user.                         *)
RegisterInsert(w) ==
  LET r == req[w]
  IN  /\ r.op = "register" /\ r.pc = "insert"
      /\ req' = [req EXCEPT ![w] = IdleReq]
      /\ IF UniqueViolation(r.line_user_id)
         THEN /\ last' = Response(r, {}, 500, "IntegrityError")
              /\ UNCHANGED users
         ELSE /\ users' = Append(users, NewUser(r.line_user_id, r.name))
              /\ last' = Response(r, {}, 201, "")
      /\ UNCHANGED <<checkins, linereplies, replyCalls, now, nreq, env>>

(* -------------------------- POST /api/checkin ------------------------- *)
CheckinStep(w, lid, t) ==
  LET r == [IdleReq EXCEPT !.op = "checkin", !.line_user_id = lid]
  IN  /\ Free(w)
      /\ nreq' = nreq + 1
      /\ IF UsersByLineId(lid) = {}
         THEN /\ last' = Response(r, {}, 404, "")
              /\ UNCHANGED <<checkins, now>>
         ELSE /\ checkins' = Append(checkins, NewCheckin(FirstUser(lid).user_id, t))
              /\ now' = t
              /\ last' = Response([r EXCEPT !.existed = TRUE], {}, 200, "")
      /\ UNCHANGED <<users, linereplies, replyCalls, req, env>>

CheckinApi(w) == \E lid \in LineIds, t \in ClockReadings : CheckinStep(w, lid, t)

(* ------------------------- POST /api/line_reply ----------------------- *)
LineReplyStep(w, uid, msg) ==
  LET r == [IdleReq EXCEPT !.op = "line_reply", !.user_id = uid]
  IN  /\ Free(w)
      /\ nreq' = nreq + 1
      /\ IF UsersById(uid) = {}
         THEN /\ last' = Response(r, {}, 404, "")
              /\ UNCHANGED linereplies
         ELSE /\ linereplies' = Append(linereplies, NewLineReply(uid, msg))
              /\ last' = Response([r EXCEPT !.existed = TRUE], {}, 200, "")
      /\ UNCHANGED <<users, checkins, replyCalls, req, now, env>>

LineReplyApi(w) ==
  \E uid \in 1..Cardinality(LineIds), msg \in ReplyBodies :
     LineReplyStep(w, uid, msg)

Next ==
  \/ \E w \in workers : Callback(w)
  \/ \E w \in workers : HmCreate(w)
  \/ \E w \in workers : HmDispatch(w)
  \/ \E w \in workers : Register(w)
  \/ \E w \in workers : RegisterInsert(w)
  \/ \E w \in workers : CheckinApi(w)
  \/ \E w \in workers : LineReplyApi(w)

Spec == Init /\ [][Next]_vars

SpecSeq == InitSeq /\ [][Next]_vars

(* ============================ properties ============================== *)
(* A request that arrived and was answered in the same step.              *)
ArrivedAndAnswered == nreq' = nreq + 1 /\ req' = req

(* Each log is the old log with exactly one entry appended.               *)
OneCheckinAdded ==
  Len(checkins') = Len(checkins) + 1 /\ SubSeq(checkins', 1, Len(checkins)) = checkins

OneReplyCall ==
  Len(replyCalls') = Len(replyCalls) + 1
  /\ SubSeq(replyCalls', 1, Len(replyCalls)) = replyCalls

OneUserAdded ==
  Len(users') = Len(users) + 1 /\ SubSeq(users', 1, Len(users)) = users

(* C1: a webhook text event from a sender who was already in the User     *)
(* table, whose text is the check-in command once trimmed and lower-cased,*)
(* inserts exactly one Checkin row, owned by that sender, changes no other*)
(* table, and calls reply_message exactly once with the success text and  *)
(* the event's reply token.                                               *)
C1_CheckinCommand ==
  [][\A w \in Workers :
       ( /\ req[w].op = "callback" /\ req[w].pc = "dispatch" /\ req[w].existed
         /\ req[w].text \in {<<"da", "ka">>, <<" ", "da", "ka", " ">>}
         /\ req'[w].pc = "idle" )
       => /\ OneCheckinAdded
          /\ \E i \in 1..Len(users) :
                /\ users[i].line_user_id = req[w].line_user_id
                /\ checkins'[Len(checkins')].user_id = users[i].user_id
          /\ OneReplyCall
          /\ replyCalls'[Len(replyCalls')] =
               [reply_token |-> req[w].token,
                text |-> [head |-> REPLY_CHECKIN_OK, lines |-> <<>>]]
          /\ users' = users /\ linereplies' = linereplies]_vars

C1_Witness ==
  /\ last.op = "callback" /\ last.existed /\ last.status = 200
  /\ replyCalls # <<>>
  /\ replyCalls[Len(replyCalls)].text.head = REPLY_CHECKIN_OK
  /\ \E i \in 1..Len(users), j \in 1..Len(checkins) :
        /\ users[i].line_user_id = last.line_user_id
        /\ checkins[j].user_id = users[i].user_id

(* C2: when handle_message commits the insert for an id that is not in the*)
(* User table, exactly one User is added, with that id and with the       *)
(* profile's display name or the placeholder "LINE User" as its name; a   *)
(* delivery that finds the id present goes on with the existing row and   *)
(* none of its steps changes the User table.                              *)
C2_CreateOnceThenReuse ==
  [][\A w \in Workers :
       /\ ( /\ req[w].op = "callback" /\ req[w].pc = "create"
            /\ req'[w] # req[w]
            /\ \A i \in 1..Len(users) :
                  users[i].line_user_id # req[w].line_user_id )
          => /\ OneUserAdded
             /\ users'[Len(users')].line_user_id = req[w].line_user_id
             /\ users'[Len(users')].name \in
                  {ProfileDisplayName(req[w].line_user_id), PLACEHOLDER_NAME}
             /\ \A i \in 1..Len(users) :
                   users[i].user_id # users'[Len(users')].user_id
       /\ ( /\ req[w].pc = "idle" /\ req'[w].op = "callback"
            /\ \E i \in 1..Len(users) :
                  users[i].line_user_id = req'[w].line_user_id )
          => req'[w].pc = "dispatch" /\ req'[w].existed
       /\ ( req[w].op = "callback" /\ req[w].existed /\ req'[w] # req[w] )
          => users' = users]_vars

C2_Witness ==
  /\ last.op = "callback" /\ last.existed /\ last.status = 200
  /\ Len(replyCalls) = 2
  /\ Cardinality({i \in 1..Len(users) :
                    users[i].line_user_id = last.line_user_id}) = 1
  /\ \E i \in 1..Len(users) :
        /\ users[i].line_user_id = last.line_user_id
        /\ users[i].name = PLACEHOLDER_NAME

(* C3: a POST /callback without the X-Line-Signature header is answered   *)
(* with a 400-class status, handle_message is not entered (no worker      *)
(* takes the request up, no reply is sent) and no table changes.          *)
C3_MissingSignatureRejected ==
  [][( /\ ArrivedAndAnswered
       /\ last'.op = "callback"
       /\ HEADER_SIGNATURE \notin last'.headers )
     => /\ last'.status \in 400..499
        /\ UNCHANGED <<users, checkins, linereplies, replyCalls>>]_vars

(* C4: the query command answers a sender without Checkin rows with the   *)
(* fixed "no records" text and a sender with N >= 1 rows with exactly N   *)
(* formatted timestamps, those of the sender's own rows, one per line, in *)
(* ascending timestamp order.                                             *)
C4_QueryListsAscending ==
  [][\A w \in Workers :
       ( /\ req[w].op = "callback" /\ req[w].pc = "dispatch"
         /\ req[w].text = <<"cha", "xun">>
         /\ req'[w].pc = "idle" )
       => LET mine == {i \in 1..Len(checkins) :
                         checkins[i].user_id = req[w].user_id}
              reply == replyCalls'[Len(replyCalls')].text
          IN  /\ OneReplyCall
              /\ IF mine = {}
                 THEN reply = [head |-> REPLY_NO_RECORDS, lines |-> <<>>]
                 ELSE /\ reply.head = REPLY_RECORDS
                      /\ Len(reply.lines) = Cardinality(mine)
                      /\ \A v \in 0..MaxTime :
                            Cardinality({k \in 1..Len(reply.lines) :
                                           reply.lines[k] = v})
                            = Cardinality({i \in mine :
                                  Strftime(checkins[i].checkin_time) = v})
                      /\ \A k \in 1..(Len(reply.lines) - 1) :
                            reply.lines[k] <= reply.lines[k + 1]]_vars

(* C5: when reply_message raises during a webhook request, /callback still*)
(* answers 200 and what the request committed before the reply is kept.   *)
C5_ReplyFailureSwallowed ==
  [][\A w \in Workers :
       ( /\ req[w].op = "callback" /\ req[w].pc = "dispatch"
         /\ req'[w].pc = "idle"
         /\ last'.error = "LineBotApiError" )
       => /\ last'.status = 200
          /\ users' = users
          /\ req[w].text \in {<<"da", "ka">>, <<" ", "da", "ka", " ">>}
                => OneCheckinAdded]_vars

(* C6: a webhook delivery that saw its sender as absent and finds, at its *)
(* own insert, that another webhook delivery has created the sender       *)
(* meanwhile, takes the existing User and goes on to its command and      *)
(* reply instead of ending in a fault.                                    *)
C6_DuplicateCreateBenign ==
  [][\A w \in Workers :
       ( /\ req[w].op = "callback" /\ req[w].pc = "create"
         /\ req'[w] # req[w]
         /\ \E i \in 1..Len(users) :
               /\ users[i].line_user_id = req[w].line_user_id
               /\ users[i].name \notin RegisterNames )
       => /\ req'[w].pc = "dispatch"
          /\ \E i \in 1..Len(users) :
                /\ users[i].line_user_id = req[w].line_user_id
                /\ users[i].user_id = req'[w].user_id
          /\ users' = users]_vars

(* C7: POST /api/register with a non-empty id and name is answered 201    *)
(* when the id was absent, and the row it adds carries that id and name;  *)
(* a later call with the same id, whoever created the row, is answered    *)
(* 200 and leaves the User table as it was.                               *)
C7_RegisterTwice ==
  [][/\ \A w \in Workers :
          ( req[w].op = "register" /\ req[w].pc = "insert" /\ req'[w].pc = "idle" )
          => /\ last'.op = "register" /\ last'.status = 201
             /\ OneUserAdded
             /\ users'[Len(users')].line_user_id = req[w].line_user_id
             /\ users'[Len(users')].name = req[w].name
     /\ ( /\ ArrivedAndAnswered /\ last'.op = "register"
          /\ last'.line_user_id # "" /\ last'.name # ""
          /\ \E i \in 1..Len(users) :
                users[i].line_user_id = last'.line_user_id )
        => last'.status = 200 /\ users' = users]_vars

C7_Witness ==
  /\ last.op = "register" /\ last.status = 200 /\ last.existed
  /\ Len(users) = 1
  /\ users[1].line_user_id = last.line_user_id
  /\ users[1].name \in RegisterNames

(* C8: POST /api/checkin for an id that matches no User is answered 404   *)
(* and changes no table; for an id that matches a User it adds exactly one*)
(* Checkin row owned by that User; and whatever adds a Checkin row, the   *)
(* row's owner is a User that was in the table before the insert.         *)
C8_CheckinApi ==
  [][/\ ( ArrivedAndAnswered /\ last'.op = "checkin" )
        => IF \A i \in 1..Len(users) :
                 users[i].line_user_id # last'.line_user_id
           THEN /\ last'.status = 404
                /\ UNCHANGED <<users, checkins, linereplies>>
           ELSE /\ last'.status = 200
                /\ OneCheckinAdded
                /\ \E i \in 1..Len(users) :
                      /\ users[i].line_user_id = last'.line_user_id
                      /\ checkins'[Len(checkins')].user_id = users[i].user_id
                /\ UNCHANGED <<users, linereplies>>
     /\ \A j \in (Len(checkins) + 1)..Len(checkins') :
           \E i \in 1..Len(users) : users[i].user_id = checkins'[j].user_id]_vars

C8_Witness ==
  /\ last.op = "checkin" /\ last.status = 404 /\ ~last.existed
  /\ users # <<>>
  /\ checkins # <<>>

(* C9: no two User rows have the same line_user_id, and a step never      *)
(* removes or changes a User row that is already there.                   *)
C9_UniqueAppendOnly ==
  [][/\ \A i, j \in 1..Len(users') :
          i # j => users'[i].line_user_id # users'[j].line_user_id
     /\ Len(users') >= Len(users)
     /\ SubSeq(users', 1, Len(users)) = users]_vars

C9_Witness ==
  /\ last.error = "IntegrityError"
  /\ users # <<>>
  /\ \A i, j \in 1..Len(users) :
        i # j => users[i].line_user_id # users[j].line_user_id

(* C10: a webhook text event from a sender who was already in the User    *)
(* table changes no table when its text is the query command or is no     *)
(* command at all; in the latter case it sends exactly one reply, the     *)
(* fixed help message.                                                    *)
C10_NoMutationWithoutCheckin ==
  [][\A w \in Workers :
       ( /\ req[w].op = "callback" /\ req[w].pc = "dispatch" /\ req[w].existed
         /\ req[w].text \in {<<"da", " ", "ka">>, <<"cha", "xun">>}
         /\ req'[w].pc = "idle" )
       => /\ UNCHANGED <<users, checkins, linereplies>>
          /\ OneReplyCall
          /\ req[w].text = <<"da", " ", "ka">>
                => replyCalls'[Len(replyCalls')] =
                     [reply_token |-> req[w].token,
                      text |-> [head |-> REPLY_HELP, lines |-> <<>>]]]_vars

C10_Witness ==
  /\ last.op = "callback" /\ last.existed /\ last.status = 200
  /\ replyCalls # <<>>
  /\ replyCalls[Len(replyCalls)].text = [head |-> REPLY_HELP, lines |-> <<>>]
  /\ checkins = <<>> /\ linereplies = <<>>
====
